---------------------------- MODULE Spec2Model ----------------------------
(***************************************************************************)
(* A model of mcp-chat (src/mcp-chat.ts): the MCPMessageBus that attaches  *)
(* to an MCP Server, installs five facade request handlers, captures the   *)
(* host's later registrations in its own registry, and sends update        *)
(* notifications.                                                          *)
(*                                                                         *)
(* Strings of the program are tuples of one-character strings, so that the *)
(* URI parser works on characters.  A value that may be undefined in the   *)
(* program is a record [t, v] with t the JavaScript type.                  *)
(***************************************************************************)
EXTENDS Naturals, Sequences, FiniteSets

(***************************************************************************)
(* Bounds of the model.                                                    *)
(***************************************************************************)
\* host registrations (server.setRequestHandler calls by the host) per run
MaxRegs == 2
\* updateResource and updateResourceList calls per run, together
MaxUpdates == 2
\* nested facade frames of one request (the facade as its own fallback)
MaxDepth == 2
\* attach calls per run, where attaching again is allowed
MaxAttach == 2
\* characters of the scheme's suffix, and of the path, in the strings parsed
MaxText == 2
\* resources of the lists protocol discovery is evaluated on
MaxResources == 3

(***************************************************************************)
(* Strings and JavaScript values.                                          *)
(***************************************************************************)
ChatPlus == <<"c", "h", "a", "t", "+">>
TripleSlash == <<":", "/", "/", "/">>
UriA1 == ChatPlus \o <<"a">> \o TripleSlash \o <<"x">>
UriA2 == ChatPlus \o <<"a">> \o TripleSlash \o <<"y">>
UriB1 == ChatPlus \o <<"b">> \o TripleSlash \o <<"x">>
UriBad == <<"b", "a", "d">>
UriBad2 == <<"c", "h", "a", "t", ":", "/", "/", "/", "x">>
ProtoA == ChatPlus \o <<"a">>
ProtoB == ChatPlus \o <<"b">>
OtherTool == <<"e", "c", "h", "o">>
Hello == <<"h", "i">>

JsString(s) == [t |-> "string", v |-> s]
JsUndefined == [t |-> "undefined", v |-> <<>>]
JsNumber == [t |-> "number", v |-> <<"7">>]
JsNull == [t |-> "null", v |-> <<>>]

\* the characters the regular expression's . does not match
LineTerminators == {"\n", "\r"}

(***************************************************************************)
(* parseChatProtocolUrl: the match of the pattern "chat+", one or more    *)
(* characters other than a colon, ":///", then any characters up to the    *)
(* end of the line; the pattern is anchored at the start only.             *)
(***************************************************************************)
RECURSIVE FirstIndex(_, _, _)
\* the least index i >= from with s[i] in chars, or 0
FirstIndex(s, chars, from) ==
    IF from > Len(s) THEN 0
    ELSE IF s[from] \in chars THEN from
    ELSE FirstIndex(s, chars, from + 1)

HasPrefixAt(s, p, at) ==
    /\ at + Len(p) - 1 <= Len(s)
    /\ \A i \in 1..Len(p) : s[at + i - 1] = p[i]

NoMatch == [matched |-> FALSE, protocol |-> <<>>, pathname |-> <<>>]

parseChatProtocolUrl(url) ==
    LET start == Len(ChatPlus) + 1
        \* [^\:]+ is greedy and must be followed by ':', so it ends at the
        \* first ':' at or after start
        colon == FirstIndex(url, {":"}, start)
        rest  == colon + Len(TripleSlash)
        \* the last group stops at the first line terminator
        stop  == FirstIndex(url, LineTerminators, rest)
        last  == IF stop = 0 THEN Len(url) ELSE stop - 1
    IN  IF /\ HasPrefixAt(url, ChatPlus, 1)
           /\ colon > start
           /\ HasPrefixAt(url, TripleSlash, colon)
        THEN [matched |-> TRUE, protocol |-> SubSeq(url, 1, colon - 1),
              pathname |-> SubSeq(url, rest, last)]
        ELSE NoMatch

(***************************************************************************)
(* The accessor contract's values.  getResources returns a list of         *)
(* resources or undefined; readMessages a list of messages or undefined;   *)
(* writeMessage a string or undefined.  Each may also fail.                *)
(***************************************************************************)
Resource(u) == [uri |-> u, name |-> "thread"]
Defined(list) == [defined |-> TRUE, list |-> list]
Absent == [defined |-> FALSE, list |-> <<>>]

\* the resource lists getResources is taken to return
ResourceLists ==
    { Absent, Defined(<<>>),
      Defined(<<Resource(UriA1)>>),
      Defined(<<Resource(UriA1), Resource(UriA2), Resource(UriB1)>>),
      Defined(<<Resource(UriA1), Resource(UriBad)>>),
      Defined(<<Resource(UriBad2), Resource(UriBad), Resource(UriB1)>>) }

Message(i, c) == [id |-> i, content |-> c]
\* the message lists readMessages is taken to return; ids may repeat
MessageLists ==
    { Absent, Defined(<<>>),
      Defined(<<Message("m2", "other"), Message("m1", "first"),
                Message("m1", "second")>>) }
MessageIds == {"m1", "m3"}

WriteResults == {JsString(<<"o", "k">>), JsUndefined}

\* the resourceTemplate given to the constructor
resourceTemplate ==
    [uriTemplate |-> "chat+a:///{thread}", name |-> "A chat",
     description |-> "threads of A"]

(***************************************************************************)
(* Errors a request or a task ends with.                                   *)
(***************************************************************************)
NoError == [type |-> "none", about |-> <<>>]
MalformedResourceURI(u) == [type |-> "Failed to parse resource URI", about |-> u]
ZodError == [type |-> "ZodError", about |-> <<>>]
AccessorError(which) == [type |-> "accessor", about |-> <<which>>]
NullServerError == [type |-> "TypeError", about |-> <<"server">>]
RangeError == [type |-> "RangeError", about |-> <<>>]
MethodNotFound == [type |-> "MethodNotFound", about |-> <<>>]

(***************************************************************************)
(* getProtocols: the protocol of every resource, the first malformed URI   *)
(* throwing, then the distinct protocols in order of first occurrence.     *)
(***************************************************************************)
RECURSIVE Dedupe(_)
\* Array.from(new Set(list))
Dedupe(list) ==
    IF list = <<>> THEN <<>>
    ELSE LET init == Dedupe(SubSeq(list, 1, Len(list) - 1))
             x == list[Len(list)]
         IN  IF \E i \in 1..Len(init) : init[i] = x THEN init
             ELSE Append(init, x)

OrEmpty(result) == IF result.defined THEN result.list ELSE <<>>

\* a mutant of getProtocols: a malformed URI is skipped, not thrown
GetProtocolsSkipping(result) ==
    LET resources == OrEmpty(result)
        good == SelectSeq(resources,
                          LAMBDA r : parseChatProtocolUrl(r.uri).matched)
    IN  [ok |-> TRUE,
         protocols |-> Dedupe([i \in 1..Len(good) |->
                                 parseChatProtocolUrl(good[i].uri).protocol]),
         error |-> NoError]

\* a mutant of getProtocols: the protocols are not deduplicated
GetProtocolsNoDedupe(result) ==
    LET resources == OrEmpty(result)
        bad == { i \in 1..Len(resources) :
                   ~parseChatProtocolUrl(resources[i].uri).matched }
    IN  IF bad # {}
        THEN [ok |-> FALSE, protocols |-> <<>>,
              error |-> MalformedResourceURI(
                  resources[CHOOSE i \in bad : \A j \in bad : i <= j].uri)]
        ELSE [ok |-> TRUE,
              protocols |-> [i \in 1..Len(resources) |->
                               parseChatProtocolUrl(resources[i].uri).protocol],
              error |-> NoError]

getProtocols(result) ==
    LET resources == OrEmpty(result)
        bad == { i \in 1..Len(resources) :
                   ~parseChatProtocolUrl(resources[i].uri).matched }
    IN  IF bad # {}
        THEN [ok |-> FALSE, protocols |-> <<>>,
              error |-> MalformedResourceURI(
                  resources[CHOOSE i \in bad : \A j \in bad : i <= j].uri)]
        ELSE [ok |-> TRUE,
              protocols |-> Dedupe([i \in 1..Len(resources) |->
                               parseChatProtocolUrl(resources[i].uri).protocol]),
              error |-> NoError]

Includes(list, x) == \E i \in 1..Len(list) : list[i] = x

(***************************************************************************)
(* The tool synthesized for a protocol, and responses.  A response is      *)
(* [field, items, meta]: the list under its field name, and meta the       *)
(* handler whose other properties the object carries ("none" for an object *)
(* the bus builds).                                                        *)
(***************************************************************************)
SynthesizedTool(protocol) ==
    [name |-> protocol,
     description |-> <<"Send a message on the", resourceTemplate.name,
                       "protocol using the resource URI">>,
     uriDescription |-> <<resourceTemplate.uriTemplate,
                          resourceTemplate.description>>,
     required |-> <<"uri", "message">>]

SynthesizeTools(protocols) ==
    [i \in 1..Len(protocols) |-> SynthesizedTool(protocols[i])]

Response(field, items) == [field |-> field, items |-> items, meta |-> "none"]
NoResponse == [field |-> "none", items |-> <<>>, meta |-> "none"]

(***************************************************************************)
(* Request kinds, handlers and the registry.                               *)
(***************************************************************************)
ListTools == "tools/list"
CallTool == "tools/call"
ReadResource == "resources/read"
ListResources == "resources/list"
ListResourceTemplates == "resources/templates/list"
Subscribe == "resources/subscribe"
FacadeKinds ==
    {ListTools, CallTool, ReadResource, ListResources, ListResourceTemplates}
Kinds == FacadeKinds \cup {Subscribe}

\* handlers: two of the host's, the bus's own facade handler, and none
HostHandlers == {"H1", "H2"}
Facade == "facade"
NoHandler == "undefined"

\* the shape of a request kind's params in the SDK's schemas
ParamsShape(kind) ==
    CASE kind \in {ListTools, ListResources, ListResourceTemplates} -> "cursor"
      [] kind = CallTool -> "name, arguments"
      [] OTHER -> "uri"

\* a mutant of printZodSchema: the rendering without the method literal
PrintParamsOnly(kind) == <<"method", ParamsShape(kind)>>

\* printZodSchema(schema): the schema rendered as TypeScript text, which
\* holds the kind's method literal and the shape of its params
printZodSchema(kind) == <<kind, ParamsShape(kind)>>

\* Map.get and Map.set
MapGet(map, key) == IF key \in DOMAIN map THEN map[key] ELSE NoHandler
\* a mutant of Map.set: an entry already present is kept
MapSetKeepFirst(map, key, value) ==
    [k \in DOMAIN map \cup {key} |-> IF k \in DOMAIN map THEN map[k] ELSE value]
MapSet(map, key, value) ==
    [k \in DOMAIN map \cup {key} |-> IF k = key THEN value ELSE map[k]]
EmptyMap == [k \in {} |-> NoHandler]

FieldOf(kind) ==
    CASE kind = ListTools -> "tools"
      [] kind = CallTool -> "content"
      [] kind = ReadResource -> "contents"
      [] kind = ListResources -> "resources"
      [] kind = ListResourceTemplates -> "resourceTemplates"
      [] OTHER -> "result"

\* what a handler of the host returns for a request of a kind
HostResult(h, kind) ==
    [field |-> FieldOf(kind),
     items |-> IF h = "H1" THEN <<[by |-> h, n |-> 1]>>
               ELSE <<[by |-> h, n |-> 1], [by |-> h, n |-> 2]>>,
     meta |-> h]

(***************************************************************************)
(* Requests.  One request is handled at a time; its handler runs to its    *)
(* next await in one step, and other operations run while it is suspended. *)
(* A frame is one running invocation of a facade handler.                  *)
(***************************************************************************)
ToolNames == {ProtoA, ProtoB, OtherTool}
ValidToolArguments == [uri |-> JsString(UriA1), message |-> JsString(Hello)]
InvalidToolArguments ==
    { [uri |-> JsString(UriA1), message |-> JsUndefined],
      [uri |-> JsNumber, message |-> JsString(Hello)] }
ReadUris == {UriA1, UriBad}

NoParams == [name |-> <<>>, arguments |-> [uri |-> JsUndefined, message |-> JsUndefined],
             uri |-> <<>>]
ParamsOf(kind) ==
    CASE kind = CallTool ->
           { [NoParams EXCEPT !.name = n, !.arguments = ValidToolArguments] :
               n \in ToolNames }
           \cup { [NoParams EXCEPT !.name = ProtoA, !.arguments = a] :
                    a \in InvalidToolArguments }
      [] kind = ReadResource -> { [NoParams EXCEPT !.uri = u] : u \in ReadUris }
      [] OTHER -> {NoParams}

\* a mutant of the schema: only uri is required to be a string
ParseUriOnly(args) ==
    IF args.uri.t = "string"
    THEN [ok |-> TRUE, uri |-> args.uri.v, message |-> args.message.v]
    ELSE [ok |-> FALSE, uri |-> <<>>, message |-> <<>>]

\* SendChatMessageSchema.parse(args)
SendChatMessageSchemaParse(args) ==
    IF args.uri.t = "string" /\ args.message.t = "string"
    THEN [ok |-> TRUE, uri |-> args.uri.v, message |-> args.message.v]
    ELSE [ok |-> FALSE, uri |-> <<>>, message |-> <<>>]

\* JSON.stringify({uri, messages}, null, 2)
JSONStringify(uri, messages) ==
    [json |-> "object", uri |-> uri, messages |-> messages, indent |-> 2]

Frame(pc, h) == [pc |-> pc, h |-> h, orig |-> <<>>, local |-> <<>>]

IdleRequest ==
    [kind |-> ListTools, params |-> NoParams, status |-> "idle", stack |-> <<>>,
     response |-> NoResponse, error |-> NoError,
     \* what happened while it was handled
     writes |-> <<>>, calls |-> <<>>, lookups |-> <<>>, atStart |-> NoHandler,
     direct |-> NoHandler, resources |-> <<>>, messages |-> <<>>,
     summaries |-> <<>>, rejected |-> <<>>, attached |-> FALSE]

Top(r) == r.stack[Len(r.stack)]
SetTop(r, f) == [r EXCEPT !.stack[Len(r.stack)] = f]
Push(r, f) == [r EXCEPT !.stack = Append(r.stack, f)]
Pop(r) == [r EXCEPT !.stack = SubSeq(r.stack, 1, Len(r.stack) - 1)]
Throw(r, e) == [r EXCEPT !.status = "failed", !.error = e, !.stack = <<>>]

(***************************************************************************)
(* The results the facade handlers build.                                  *)
(***************************************************************************)
\* { tools: [...originalToolsResponse.tools, ...tools] }
ListToolsResult(originalTools, protocols) ==
    Response("tools", originalTools \o SynthesizeTools(protocols))

\* a mutant of the call-tool result: the text item is left out
CallToolResultEmpty(summaryText) == Response("content", <<>>)

\* { content: [{ type: "text", text: summaryText }] }
CallToolResult(summaryText) ==
    Response("content", <<[type |-> "text", text |-> summaryText]>>)

\* { contents: [{ uri, mimeType, text: JSON.stringify({uri, messages}) }] }
ReadResourceResult(uri, messages) ==
    Response("contents", <<[uri |-> uri, mimeType |-> "application/json",
                            text |-> JSONStringify(uri, messages)]>>)

\* a mutant of the list-resources result: the fallback's resources first
ListResourcesFallbackFirst(localResources, otherResources) ==
    Response("resources", otherResources \o localResources)

\* { resources: [...localResources, ...otherResources.resources] }
ListResourcesResult(localResources, otherResources) ==
    Response("resources", localResources \o otherResources)

\* { resourceTemplates: [...localResourceTemplates, ...other] }
ListResourceTemplatesResult(otherResourceTemplates) ==
    Response("resourceTemplates", <<resourceTemplate>> \o otherResourceTemplates)

\* a mutant of the test: an empty list counts as absent
TruthyNonEmpty(messages) == messages.defined /\ messages.list # <<>>

\* if (messages): undefined is falsy, every array is truthy
Truthy(messages) == messages.defined

(***************************************************************************)
(* The facade handlers, as steps between awaits.  reg is the registry at   *)
(* the time of the step.                                                   *)
(***************************************************************************)
\* this.requestHandlers.get(printZodSchema(schema)), noted in the request
Lookup(reg, kind) == MapGet(reg, printZodSchema(kind))
NoteLookup(r, h) == [r EXCEPT !.lookups = Append(@, h)]
NoteCall(r, h) == [r EXCEPT !.calls = Append(@, h)]

RECURSIVE Return(_, _), Deliver(_, _)
\* the top frame returns v: to the server, or to the frame that awaits it
Return(r, v) ==
    IF Len(r.stack) = 1
    THEN [r EXCEPT !.status = "done", !.response = v, !.stack = <<>>]
    ELSE Deliver(Pop(r), v)

\* the handler the top frame awaits has returned v
Deliver(r, v) ==
    CASE Top(r).pc = "awaitDelegate" -> Return(r, v)
      [] r.kind = ListTools ->
           SetTop(r, [Top(r) EXCEPT !.pc = "awaitResources", !.orig = v.items])
      [] r.kind = ListResources ->
           Return(r, ListResourcesResult(Top(r).local, v.items))
      [] OTHER -> Return(r, ListResourceTemplatesResult(v.items))

\* a new frame of the facade handler of r.kind, run to its first await
Enter(r, reg) ==
    LET h == Lookup(reg, r.kind)
    IN  CASE r.kind = ListTools ->
               IF h = NoHandler
               THEN Push(NoteLookup(r, h), Frame("awaitResources", NoHandler))
               ELSE IF h = Facade
               \* the facade calls itself before any await
               THEN Throw(NoteCall(NoteLookup(r, h), h), RangeError)
               ELSE Push(NoteCall(NoteLookup(r, h), h), Frame("awaitFallback", h))
          [] r.kind = ListResourceTemplates ->
               IF h = NoHandler
               THEN Return(Push(NoteLookup(r, h), Frame("return", NoHandler)),
                           ListResourceTemplatesResult(<<>>))
               ELSE IF h = Facade
               THEN Throw(NoteCall(NoteLookup(r, h), h), RangeError)
               ELSE Push(NoteCall(NoteLookup(r, h), h), Frame("awaitFallback", h))
          [] r.kind = ReadResource -> Push(r, Frame("awaitRead", NoHandler))
          [] OTHER -> Push(r, Frame("awaitResources", NoHandler))

\* await requestHandler(request, extra), the top frame waiting at pc
CallFallback(r, reg, h, pc) ==
    LET waiting == NoteCall(SetTop(r, [Top(r) EXCEPT !.pc = pc, !.h = h]), h)
    IN  IF h # Facade THEN waiting
        ELSE IF Len(r.stack) >= MaxDepth
        THEN [waiting EXCEPT !.status = "unbounded"]
        ELSE Enter(waiting, reg)

\* a mutant of the else branch: the fallback is looked up and not called
NeverDelegate(r, reg) ==
    Return(NoteLookup(r, Lookup(reg, r.kind)), Response(FieldOf(r.kind), <<>>))

\* a mutant of the else branch: the registry is read once for the test
\* and once more for the call
DelegateLookingUpTwice(r, reg) ==
    LET h == Lookup(reg, r.kind)
    IN  IF h = NoHandler
        THEN Return(NoteLookup(r, h), Response(FieldOf(r.kind), <<>>))
        ELSE CallFallback(NoteLookup(NoteLookup(r, h), h), reg, h,
                          "awaitDelegate")

\* the else branch of call-tool and of read-resource: delegate, or empty
DelegateOrEmpty(r, reg) ==
    LET h == Lookup(reg, r.kind)
    IN  IF h = NoHandler
        THEN Return(NoteLookup(r, h), Response(FieldOf(r.kind), <<>>))
        ELSE CallFallback(NoteLookup(r, h), reg, h, "awaitDelegate")

\* list-tools and call-tool after await this.getProtocols()
AfterGetProtocols(r, reg, found) ==
    IF ~found.ok THEN Throw(r, found.error)
    ELSE IF r.kind = ListTools
    THEN Return(r, ListToolsResult(Top(r).orig, found.protocols))
    ELSE IF Includes(found.protocols, r.params.name)
    THEN LET parsed == SendChatMessageSchemaParse(r.params.arguments)
         IN  IF ~parsed.ok THEN Throw(r, ZodError)
             ELSE SetTop([r EXCEPT !.writes = Append(@,
                             [uri |-> parsed.uri, message |-> parsed.message])],
                         [Top(r) EXCEPT !.pc = "awaitWrite"])
    ELSE DelegateOrEmpty(r, reg)

\* list-resources after await this.getResources()
ListResourcesAfterGetResources(r, reg, result) ==
    LET h == Lookup(reg, r.kind)
        kept == SetTop(NoteLookup(r, h), [Top(r) EXCEPT !.local = OrEmpty(result)])
    IN  IF h = NoHandler
        THEN Return(kept, ListResourcesResult(OrEmpty(result), <<>>))
        ELSE CallFallback(kept, reg, h, "awaitFallback")

\* read-resource after await this.readMessages(uri)
ReadResourceAfterReadMessages(r, reg, messages) ==
    IF Truthy(messages)
    THEN Return(r, ReadResourceResult(r.params.uri, messages.list))
    ELSE DelegateOrEmpty(r, reg)

(***************************************************************************)
(* State.                                                                  *)
(***************************************************************************)
VARIABLES
    serverHandlers,    \* the server's own handler table, by request kind
    overridden,        \* server.setRequestHandler is the bus's override
    server,            \* this.server: "null" or "server"
    transportStarted,  \* the server's transport is connected and started
    requestHandlers,   \* this.requestHandlers: fingerprint -> handler
    attaches,          \* attach calls so far
    regs,              \* host registrations so far
    hostRegistered,    \* the handler the host last registered for each kind,
                       \* before attach and after it
    req,               \* the request being handled, or the last one handled
    updates,           \* the updateResource calls, each with its detached task
    listUpdates,       \* updateResourceList calls so far
    sent,              \* what the bus handed to the server to send, in order
    raised,            \* the errors updateResourceList threw to its caller
    pure               \* a pure function of the module, its argument and result

vars == <<serverHandlers, overridden, server, transportStarted, requestHandlers,
          attaches, regs, hostRegistered, req, updates, listUpdates, sent,
          raised, pure>>
dispatchVars == <<serverHandlers, overridden, requestHandlers, attaches, regs,
                  hostRegistered, req>>
notifyVars == <<transportStarted, updates, listUpdates, sent, raised>>
pureVars == <<pure>>
\* no pure function under evaluation
NoEvaluation == [fn |-> "none"]

\* the state after new MCPMessageBus(...)
Constructed ==
    /\ serverHandlers = [k \in Kinds |-> NoHandler]
    /\ overridden = FALSE
    /\ server = "null"
    /\ transportStarted = FALSE
    /\ requestHandlers = EmptyMap
    /\ attaches = 0
    /\ regs = 0
    /\ hostRegistered = [before |-> [k \in Kinds |-> NoHandler],
                         after |-> [k \in Kinds |-> NoHandler]]
    /\ req = IdleRequest
    /\ updates = <<>>
    /\ listUpdates = 0
    /\ sent = <<>>
    /\ raised = <<>>

Init == Constructed /\ pure = NoEvaluation

(***************************************************************************)
(* attach(server) and the host's registrations.                            *)
(***************************************************************************)
\* the override: this.requestHandlers.set(printZodSchema(requestSchema), handler)
SetRequestHandlerOverride(map, kind, handler) ==
    MapSet(map, printZodSchema(kind), handler)

\* the five server.setRequestHandler calls of attach, through the override
FacadeIntoRegistry(map) ==
    LET a == SetRequestHandlerOverride(map, ListTools, Facade)
        b == SetRequestHandlerOverride(a, CallTool, Facade)
        c == SetRequestHandlerOverride(b, ReadResource, Facade)
        d == SetRequestHandlerOverride(c, ListResources, Facade)
    IN  SetRequestHandlerOverride(d, ListResourceTemplates, Facade)

\* the five server.setRequestHandler calls of attach, on the server itself
FacadeIntoServer(table) ==
    [k \in Kinds |-> IF k \in FacadeKinds THEN Facade ELSE table[k]]

AttachBody ==
    /\ IF overridden
       THEN /\ requestHandlers' = FacadeIntoRegistry(requestHandlers)
            /\ UNCHANGED serverHandlers
       ELSE /\ serverHandlers' = FacadeIntoServer(serverHandlers)
            /\ UNCHANGED requestHandlers
    /\ overridden' = TRUE
    /\ server' = "server"
    /\ attaches' = attaches + 1
    /\ UNCHANGED <<regs, hostRegistered, req, notifyVars, pureVars>>

\* messageBus.attach(server), the first time
Attach == attaches = 0 /\ AttachBody

\* the host calls server.setRequestHandler(schema, handler)
HostRegister ==
    /\ regs < MaxRegs
    /\ \E k \in Kinds, h \in HostHandlers :
         IF overridden
         THEN /\ requestHandlers' = SetRequestHandlerOverride(requestHandlers, k, h)
              /\ hostRegistered' = [hostRegistered EXCEPT !.after[k] = h]
              /\ UNCHANGED serverHandlers
         ELSE /\ serverHandlers' = [serverHandlers EXCEPT ![k] = h]
              /\ hostRegistered' = [hostRegistered EXCEPT !.before[k] = h]
              /\ UNCHANGED requestHandlers
    /\ regs' = regs + 1
    /\ UNCHANGED <<overridden, server, attaches, req, notifyVars, pureVars>>

(***************************************************************************)
(* A request arrives at the server; suspended handlers resume.             *)
(***************************************************************************)
Settled == req.status # "running"

\* the server dispatches a request to the handler in its table
Dispatch(r, table, reg) ==
    LET h == table[r.kind]
        d == [r EXCEPT !.direct = h]
    IN  IF h = NoHandler THEN Throw(d, MethodNotFound)
        ELSE IF h = Facade THEN Enter(d, reg)
        ELSE [d EXCEPT !.status = "done", !.response = HostResult(h, r.kind)]

StartRequest ==
    /\ Settled
    /\ \E k \in Kinds : \E p \in ParamsOf(k) :
         req' = Dispatch([IdleRequest EXCEPT !.kind = k, !.params = p,
                             !.status = "running", !.attached = attaches > 0,
                             !.atStart = Lookup(requestHandlers, k)],
                         serverHandlers, requestHandlers)
    /\ UNCHANGED <<serverHandlers, overridden, server, requestHandlers,
                   attaches, regs, hostRegistered, notifyVars, pureVars>>

Suspended(pc) == req.status = "running" /\ Top(req).pc = pc
OnlyReq == UNCHANGED <<serverHandlers, overridden, server, requestHandlers,
                       attaches, regs, hostRegistered, notifyVars, pureVars>>

\* a handler of the host, awaited by the facade, returns
HandlerReturns ==
    /\ req.status = "running"
    /\ Top(req).pc \in {"awaitFallback", "awaitDelegate"}
    /\ Top(req).h \in HostHandlers
    /\ req' = Deliver(req, HostResult(Top(req).h, req.kind))
    /\ OnlyReq

\* getResources returns
GetResourcesReturns ==
    /\ Suspended("awaitResources")
    /\ \E result \in ResourceLists :
         LET r == [req EXCEPT !.resources = Append(@, result)]
         IN  req' = IF req.kind = ListResources
                    THEN ListResourcesAfterGetResources(r, requestHandlers, result)
                    ELSE AfterGetProtocols(r, requestHandlers, getProtocols(result))
    /\ OnlyReq

\* writeMessage returns
WriteMessageReturns ==
    /\ Suspended("awaitWrite")
    /\ \E summaryText \in WriteResults :
         req' = Return([req EXCEPT !.summaries = Append(@, summaryText)],
                       CallToolResult(summaryText))
    /\ OnlyReq

\* readMessages returns to the read-resource handler
ReadMessagesReturns ==
    /\ Suspended("awaitRead")
    /\ \E messages \in MessageLists :
         req' = ReadResourceAfterReadMessages(
                    [req EXCEPT !.messages = Append(@, messages)],
                    requestHandlers, messages)
    /\ OnlyReq

\* a mutant of the awaits: the handler catches the rejection and answers
\* with an empty result
RejectionAnsweredEmpty(r, which) ==
    Return([r EXCEPT !.rejected = Append(@, which)],
           Response(FieldOf(r.kind), <<>>))

\* the accessor awaited at pc `which` rejects: no handler has a try or a
\* catch around its awaits, so the rejection leaves every frame
AccessorRejects(r, which) ==
    Throw([r EXCEPT !.rejected = Append(@, which)], AccessorError(which))

\* getResources, writeMessage or readMessages fails
AccessorFails ==
    /\ req.status = "running"
    /\ Top(req).pc \in {"awaitResources", "awaitWrite", "awaitRead"}
    /\ req' = AccessorRejects(req, Top(req).pc)
    /\ OnlyReq

Next ==
    \/ Attach
    \/ HostRegister
    \/ StartRequest
    \/ HandlerReturns
    \/ GetResourcesReturns
    \/ WriteMessageReturns
    \/ ReadMessagesReturns
    \/ AccessorFails

Spec == Init /\ [][Next]_vars

\* messageBus.attach(server) again, on the server it is attached to: the
\* server's setRequestHandler is the override by now, so the five calls of
\* attach store the facade handlers in the registry
Reattach == attaches \in 1..(MaxAttach - 1) /\ AttachBody

NextReattach ==
    \/ Attach
    \/ Reattach
    \/ HostRegister
    \/ StartRequest
    \/ HandlerReturns
    \/ GetResourcesReturns
    \/ WriteMessageReturns
    \/ ReadMessagesReturns
    \/ AccessorFails

SpecReattach == Init /\ [][NextReattach]_vars

(***************************************************************************)
(* Notifications: updateResourceList and updateResource.  sent holds what  *)
(* the bus handed to the server (sendResourceListChanged,                  *)
(* sendResourceUpdated, notification), each with the call it came from.    *)
(***************************************************************************)
UpdateUris == {UriA1, UriB1}

ResourceListChanged(n) ==
    [method |-> "notifications/resources/list_changed", uri |-> <<>>,
     content |-> JsNull, call |-> n]
ResourceUpdated(uri, n) ==
    [method |-> "notifications/resources/updated", uri |-> uri,
     content |-> JsNull, call |-> n]
\* { method: "notifications/resources/content_updated", params: { content } }
ContentUpdated(message, n) ==
    [method |-> "notifications/resources/content_updated", uri |-> <<>>,
     content |-> message, call |-> n]

\* a mutant of the guard: the transport's flag alone
TransportFlagAlone(srv, started) == started

\* !!(this.server && (this.server.transport as any)?._started)
isServerTransportStarted(srv, started) == srv # "null" /\ started

\* this.server!.sendResourceListChanged(): the call hands the notification
\* to the server, and throws a TypeError when this.server is null
sendResourceListChanged(srv, n) ==
    IF srv = "null"
    THEN [sent |-> <<>>, raised |-> <<NullServerError>>]
    ELSE [sent |-> <<ResourceListChanged(n)>>, raised |-> <<>>]

\* the host connects the server to a transport, which starts it
ConnectTransport ==
    /\ ~transportStarted
    /\ transportStarted' = TRUE
    /\ UNCHANGED <<dispatchVars, pureVars, server, updates, listUpdates, sent,
                   raised>>

updateResourceList ==
    /\ Len(updates) + listUpdates < MaxUpdates
    /\ listUpdates' = listUpdates + 1
    /\ LET call == IF isServerTransportStarted(server, transportStarted)
                   THEN sendResourceListChanged(server, listUpdates + 1)
                   ELSE [sent |-> <<>>, raised |-> <<>>]
       IN  /\ sent' = sent \o call.sent
           /\ raised' = raised \o call.raised
    /\ UNCHANGED <<dispatchVars, pureVars, server, transportStarted, updates>>

\* the first block of updateResource: the async function that would send
\* the resource-updated notification is built and never called
ResourceUpdatedTask == "not started"

\* the second block of updateResource: the async function is called, and
\* runs to its await of readMessages(uri)
ContentUpdatedTask == "awaitRead"

\* a mutant of updateResource: the promise waits for the detached task
PromiseAwaitingTask(task) ==
    CASE task = "awaitRead" -> "pending"
      [] task = "failed" -> "rejected"
      [] OTHER -> "resolved"

\* the promise updateResource returns: the function awaits nothing, so it
\* resolves when the synchronous part ends, whatever its tasks do later
UpdateResourcePromise(task) == "resolved"

updateResource ==
    /\ Len(updates) + listUpdates < MaxUpdates
    /\ \E uri \in UpdateUris, id \in MessageIds :
         updates' = Append(updates,
             [uri |-> uri, id |-> id, attached |-> server # "null",
              resourceTask |-> ResourceUpdatedTask,
              contentTask |-> ContentUpdatedTask,
              promise |-> UpdateResourcePromise(ContentUpdatedTask),
              read |-> Absent, error |-> NoError])
    /\ UNCHANGED <<dispatchVars, pureVars, server, transportStarted,
                   listUpdates, sent, raised>>

\* a mutant of the lookup: the last message with the id
FindLastMessage(messages, id) ==
    LET hits == { i \in 1..Len(OrEmpty(messages)) : messages.list[i].id = id }
    IN  IF hits = {} THEN JsNull
        ELSE [t |-> "object",
              v |-> messages.list[CHOOSE i \in hits : \A j \in hits : j <= i]]

\* messages?.find((m) => m.id === id) ?? null
FindMessage(messages, id) ==
    LET hits == { i \in 1..Len(OrEmpty(messages)) : messages.list[i].id = id }
    IN  IF hits = {} THEN JsNull
        ELSE [t |-> "object",
              v |-> messages.list[CHOOSE i \in hits : \A j \in hits : i <= j]]

\* readMessages returns to the detached task of call n, which then calls
\* this.server!.notification(msg)
ContentTaskResumes ==
    \E n \in 1..Len(updates) : \E messages \in MessageLists :
        /\ updates[n].contentTask = "awaitRead"
        /\ IF server = "null"
           THEN /\ updates' = [updates EXCEPT ![n].contentTask = "failed",
                       ![n].read = messages, ![n].error = NullServerError,
                       ![n].promise = UpdateResourcePromise("failed")]
                /\ UNCHANGED sent
           ELSE /\ updates' = [updates EXCEPT ![n].contentTask = "done",
                       ![n].read = messages,
                       ![n].promise = UpdateResourcePromise("done")]
                /\ sent' = Append(sent,
                       ContentUpdated(FindMessage(messages, updates[n].id), n))
        /\ UNCHANGED <<dispatchVars, pureVars, server, transportStarted,
                   listUpdates, raised>>

\* readMessages fails in the detached task of call n: nothing catches it
ContentTaskReadFails ==
    \E n \in 1..Len(updates) :
        /\ updates[n].contentTask = "awaitRead"
        /\ updates' = [updates EXCEPT ![n].contentTask = "failed",
               ![n].error = AccessorError("readMessages"),
               ![n].promise = UpdateResourcePromise("failed")]
        /\ UNCHANGED <<dispatchVars, pureVars, server, transportStarted,
                   listUpdates, sent, raised>>

NextNotify ==
    \/ Attach
    \/ ConnectTransport
    \/ updateResourceList
    \/ updateResource
    \/ ContentTaskResumes
    \/ ContentTaskReadFails

SpecNotify == Init /\ [][NextNotify]_vars

(***************************************************************************)
(* The pure functions on their own: parseChatProtocolUrl applied to a      *)
(* string, and getProtocols applied to a resource list and to a            *)
(* permutation of it.                                                      *)
(***************************************************************************)
TextChars == {"a", ":", "/", "\n"}
Texts == UNION { [1..n -> TextChars] : n \in 0..MaxText }
Prefixes == {ChatPlus, <<"c", "h", "a", "t">>, <<"x">> \o ChatPlus}
Separators == {TripleSlash, <<":", "/", "/">>, <<>>}
\* the strings parsed: a prefix, a scheme suffix, a separator and a path
ParseInputs ==
    { pre \o p \o sep \o rest :
        pre \in Prefixes, p \in Texts, sep \in Separators, rest \in Texts }

DiscoveryUris == {UriA1, UriA2, UriB1, UriBad}
\* the resource lists discovered: undefined, or up to MaxResources resources
DiscoveryInputs ==
    {Absent} \cup
    { Defined([i \in DOMAIN uris |-> Resource(uris[i])]) :
        uris \in UNION { [1..n -> DiscoveryUris] : n \in 0..MaxResources } }
\* b holds the elements of a, each as many times as a does
IsPermutation(a, b) ==
    /\ Len(a) = Len(b)
    /\ \A i \in 1..Len(a) :
         Cardinality({ j \in 1..Len(a) : a[j] = a[i] }) =
         Cardinality({ j \in 1..Len(b) : b[j] = a[i] })

NotDiscovered == [ok |-> TRUE, protocols |-> <<>>, error |-> NoError]
Evaluations ==
    { [fn |-> "parseChatProtocolUrl", arg |-> url, other |-> url,
       result |-> NoMatch, again |-> NoMatch, done |-> FALSE] :
        url \in ParseInputs }
    \cup
    { [fn |-> "getProtocols", arg |-> pair[1], other |-> pair[2],
       result |-> NotDiscovered, again |-> NotDiscovered, done |-> FALSE] :
        pair \in { q \in DiscoveryInputs \X DiscoveryInputs :
                     /\ q[1].defined = q[2].defined
                     /\ IsPermutation(q[1].list, q[2].list) } }

InitPure == Constructed /\ pure \in Evaluations

\* parseChatProtocolUrl(url)
ApplyParse ==
    /\ pure.fn = "parseChatProtocolUrl" /\ ~pure.done
    /\ pure' = [pure EXCEPT !.result = parseChatProtocolUrl(pure.arg),
                            !.again = parseChatProtocolUrl(pure.other),
                            !.done = TRUE]
    /\ UNCHANGED <<dispatchVars, server, notifyVars>>

\* await this.getProtocols(), getResources returning the list
ApplyGetProtocols ==
    /\ pure.fn = "getProtocols" /\ ~pure.done
    /\ pure' = [pure EXCEPT !.result = getProtocols(pure.arg),
                            !.again = getProtocols(pure.other),
                            !.done = TRUE]
    /\ UNCHANGED <<dispatchVars, server, notifyVars>>

NextPure == ApplyParse \/ ApplyGetProtocols

SpecPure == InitPure /\ [][NextPure]_vars

(***************************************************************************)
(* Properties of the facade (checked under Spec).                          *)
(***************************************************************************)
\* the request in req was dispatched to the bus's facade handler
ByFacade == req.direct = Facade
Done == req.status = "done"
Last(list) == list[Len(list)]

\* the resource list getResources returned to this request
SeenResources == req.resources[1]
Malformed(result) ==
    { i \in 1..Len(OrEmpty(result)) :
        ~parseChatProtocolUrl(result.list[i].uri).matched }
ProtocolSet(result) ==
    { parseChatProtocolUrl(result.list[i].uri).protocol :
        i \in 1..Len(OrEmpty(result)) }
\* the tools of the handler the list-tools facade called, if it called one
FallbackItems ==
    IF req.calls = <<>> THEN <<>> ELSE HostResult(req.calls[1], req.kind).items

\* C1: after attach, a handler the host registers for a facade kind is
\* stored in the registry (the server's own table is left alone), every
\* fallback lookup of the facade finds the handler the host last registered
\* for the request's kind after attach, a handler found is called, and a
\* call-tool request whose name is not a discovered protocol returns
\* exactly what that handler returned.
C1_RegisteredAfterAttachIsFallback ==
    /\ [][(regs' = regs + 1 /\ overridden) =>
            /\ serverHandlers' = serverHandlers
            /\ \E k \in Kinds :
                 /\ Lookup(requestHandlers', k) \in HostHandlers
                 /\ hostRegistered' = [hostRegistered EXCEPT
                        !.after[k] = Lookup(requestHandlers', k)]]_vars
    /\ [][(req'.lookups # req.lookups /\ req'.lookups # <<>>) =>
            /\ Last(req'.lookups) = hostRegistered'.after[req'.kind]
            /\ Last(req'.lookups) # NoHandler =>
                 /\ req'.calls # <<>>
                 /\ Last(req'.calls) = Last(req'.lookups)]_vars
    /\ [](Done /\ ByFacade /\ req.kind = CallTool /\ req.calls # <<>> =>
            /\ req.response = HostResult(req.calls[1], CallTool)
            /\ req.lookups = req.calls
            /\ req.params.name \notin ProtocolSet(SeenResources))

C1_Witness ==
    /\ Done /\ ByFacade /\ req.kind = CallTool
    /\ req.params.name = OtherTool
    /\ hostRegistered.before[CallTool] = "H1"
    /\ hostRegistered.after[CallTool] = "H2"
    /\ req.calls = <<"H2">>
    /\ req.response = HostResult("H2", CallTool)

\* C2 (the claim as stated): a handler the host registered for a kind
\* before attach is the one a request of that kind reaches after attach,
\* directly or as the facade's fallback.
C2_PreAttachHandlersStillInvoked ==
    (Done /\ req.attached /\ hostRegistered.before[req.kind] # NoHandler) =>
        \/ req.direct = hostRegistered.before[req.kind]
        \/ Includes(req.calls, hostRegistered.before[req.kind])

\* C3: a list-tools request the facade answers returns the tools of the
\* fallback handler registered when it began (none without one), then one
\* synthesized tool per distinct protocol of the resource list getResources
\* returned to this request, named by the protocol and requiring uri and
\* message; it fails on a malformed URI only.
C3_ListToolsIsFallbackThenOnePerProtocol ==
    (ByFacade /\ req.kind = ListTools /\ req.status \in {"done", "failed"}) =>
        /\ req.calls = IF req.atStart = NoHandler THEN <<>> ELSE <<req.atStart>>
        /\ Done =>
             LET n == Len(FallbackItems)
                 items == req.response.items
                 synth == SubSeq(items, n + 1, Len(items))
             IN  /\ Len(req.resources) = 1
                 /\ Malformed(SeenResources) = {}
                 /\ req.response.field = "tools"
                 /\ SubSeq(items, 1, n) = FallbackItems
                 /\ Len(synth) = Cardinality(ProtocolSet(SeenResources))
                 /\ { synth[i].name : i \in 1..Len(synth) } = ProtocolSet(SeenResources)
                 /\ \A i \in 1..Len(synth) : synth[i].required = <<"uri", "message">>
        /\ (req.status = "failed" /\ req.error.type # "accessor") =>
             Malformed(SeenResources) # {}

C3_Witness ==
    /\ Done /\ ByFacade /\ req.kind = ListTools
    /\ req.calls = <<"H2">>
    /\ Len(OrEmpty(SeenResources)) = 3
    /\ Len(req.response.items) = 4
    /\ req.response.items[3].name = ProtoA
    /\ req.response.items[4].name = ProtoB

\* the call-tool request's name is a protocol of the resources it saw
NameDiscovered ==
    /\ Len(req.resources) = 1
    /\ Malformed(SeenResources) = {}
    /\ req.params.name \in ProtocolSet(SeenResources)
NameNotDiscovered ==
    /\ Len(req.resources) = 1
    /\ Malformed(SeenResources) = {}
    /\ req.params.name \notin ProtocolSet(SeenResources)
ValidArguments ==
    req.params.arguments.uri.t = "string" /\ req.params.arguments.message.t = "string"

\* C4: a call-tool request whose name is a discovered protocol and whose
\* arguments are a valid {uri, message} calls writeMessage(uri, message)
\* exactly once and no fallback handler, and returns a content list of
\* exactly one text item carrying what writeMessage returned.
C4_DiscoveredToolWritesOnce ==
    (ByFacade /\ req.kind = CallTool /\ NameDiscovered /\ ValidArguments) =>
        /\ req.writes = <<[uri |-> req.params.arguments.uri.v,
                           message |-> req.params.arguments.message.v]>>
        /\ req.calls = <<>> /\ req.lookups = <<>>
        /\ req.status \in {"running", "done", "failed"}
        /\ req.status = "running" => Top(req).pc = "awaitWrite"
        /\ req.status = "failed" => req.error = AccessorError("awaitWrite")
        /\ Done =>
             /\ Len(req.summaries) = 1
             /\ req.response =
                  [field |-> "content", meta |-> "none",
                   items |-> <<[type |-> "text", text |-> req.summaries[1]]>>]

C4_Witness ==
    /\ Done /\ ByFacade /\ req.kind = CallTool
    /\ req.params.name = ProtoB /\ ValidArguments
    /\ requestHandlers # EmptyMap
    /\ Lookup(requestHandlers, CallTool) = "H1"
    /\ req.writes = <<[uri |-> UriA1, message |-> Hello]>>
    /\ req.response.items = <<[type |-> "text", text |-> JsString(<<"o", "k">>)]>>

\* C5: a call-tool request whose name is not a discovered protocol never
\* calls writeMessage; it returns what the registered call-tool fallback
\* handler returned, unchanged, or an empty content list when none is
\* registered.
C5_UnknownToolDelegates ==
    (ByFacade /\ req.kind = CallTool /\ NameNotDiscovered) =>
        /\ req.writes = <<>>
        /\ Len(req.lookups) = 1
        /\ req.status \in {"running", "done"}
        /\ req.status = "running" =>
             /\ Top(req).pc = "awaitDelegate"
             /\ req.calls = req.lookups
        /\ Done =>
             IF req.lookups[1] = NoHandler
             THEN /\ req.calls = <<>>
                  /\ req.response = [field |-> "content", items |-> <<>>, meta |-> "none"]
             ELSE /\ req.calls = req.lookups
                  /\ req.response = HostResult(req.lookups[1], CallTool)

C5_Witness ==
    /\ Done /\ ByFacade /\ req.kind = CallTool
    /\ req.params.name = ProtoB
    /\ SeenResources = Defined(<<Resource(UriA1)>>)
    /\ req.calls = <<"H1">>
    /\ req.response = HostResult("H1", CallTool)

\* C6: a read-resource request returns one JSON content item {uri, messages}
\* whenever readMessages returned a list, the empty list included, and then
\* calls no fallback; when readMessages returned undefined it returns what
\* the read-resource fallback handler returned, unchanged, or empty contents
\* when none is registered.
C6_ReadResourceLocalOrFallback ==
    (ByFacade /\ req.kind = ReadResource /\ Done) =>
        /\ Len(req.messages) = 1
        /\ IF req.messages[1].defined
           THEN /\ req.calls = <<>> /\ req.lookups = <<>>
                /\ req.response.field = "contents"
                /\ req.response.meta = "none"
                /\ Len(req.response.items) = 1
                /\ req.response.items[1].uri = req.params.uri
                /\ req.response.items[1].mimeType = "application/json"
                /\ req.response.items[1].text.uri = req.params.uri
                /\ req.response.items[1].text.messages = req.messages[1].list
           ELSE /\ Len(req.lookups) = 1
                /\ IF req.lookups[1] = NoHandler
                   THEN /\ req.calls = <<>>
                        /\ req.response =
                             [field |-> "contents", items |-> <<>>, meta |-> "none"]
                   ELSE /\ req.calls = req.lookups
                        /\ req.response = HostResult(req.lookups[1], ReadResource)

C6_Witness ==
    /\ Done /\ ByFacade /\ req.kind = ReadResource
    /\ req.messages = <<Defined(<<>>)>>
    /\ Lookup(requestHandlers, ReadResource) = "H1"
    /\ req.calls = <<>>
    /\ Len(req.response.items) = 1

\* C9: when a resource getResources returned has a URI that does not match
\* the pattern, a list-tools or call-tool request fails with the error that
\* names the first such URI: it gets no response, writes no message and is
\* not delegated.
C9_MalformedUriFailsDiscovery ==
    (ByFacade /\ req.kind \in {ListTools, CallTool} /\ req.resources # <<>>
       /\ Malformed(SeenResources) # {}) =>
        /\ req.status = "failed"
        /\ req.error.type = "Failed to parse resource URI"
        /\ \E i \in Malformed(SeenResources) :
             /\ req.error.about = SeenResources.list[i].uri
             /\ \A j \in Malformed(SeenResources) : i <= j
        /\ req.response = NoResponse
        /\ req.writes = <<>>
        /\ req.kind = CallTool => req.calls = <<>>

C9_Witness ==
    /\ ByFacade /\ req.kind = CallTool /\ req.params.name = ProtoB
    /\ ValidArguments
    /\ req.resources # <<>>
    /\ SeenResources = Defined(<<Resource(UriBad2), Resource(UriBad), Resource(UriB1)>>)
    /\ req.status = "failed"
    /\ req.error = MalformedResourceURI(UriBad2)

(***************************************************************************)
(* Properties of the notifications (checked under SpecNotify).             *)
(***************************************************************************)
\* the positions in sent of a method's notifications from call n
SentBy(n, method) ==
    { i \in 1..Len(sent) : sent[i].call = n /\ sent[i].method = method }
\* the detached task of call n has run to its end, or failed
TaskEnded(n) == updates[n].contentTask \in {"done", "failed"}

\* C7 (the claim as stated): once the work of an updateResource(uri, id)
\* call on an attached bus has ended, a resource-updated notification
\* naming uri has been handed to the server.
C7_ResourceUpdatedIsSent ==
    \A n \in 1..Len(updates) :
        (updates[n].attached /\ TaskEnded(n)) =>
            \E i \in 1..Len(sent) : sent[i] = ResourceUpdated(updates[n].uri, n)

\* C8: an updateResource(uri, id) call on an attached bus whose readMessages
\* succeeded hands the server exactly one content-updated notification,
\* whose content is the (first) entry with that id of the list readMessages
\* returned, and null when no entry has the id or readMessages returned
\* undefined; while readMessages is pending, or when it failed, none.
C8_ContentUpdatedOncePerCall ==
    \A n \in 1..Len(updates) :
        LET mine == SentBy(n, "notifications/resources/content_updated")
            list == OrEmpty(updates[n].read)
            hits == { j \in 1..Len(list) : list[j].id = updates[n].id }
        IN  /\ (updates[n].attached /\ TaskEnded(n)
                  /\ updates[n].error.type # "accessor") =>
                 /\ updates[n].contentTask = "done"
                 /\ Cardinality(mine) = 1
                 /\ \A i \in mine :
                      IF hits = {} THEN sent[i].content = JsNull
                      ELSE /\ sent[i].content.t = "object"
                           /\ \E j \in hits :
                                /\ sent[i].content.v = list[j]
                                /\ \A k \in hits : j <= k
            /\ updates[n].contentTask # "done" => mine = {}

C8_Witness ==
    \E n \in 1..Len(updates) : \E i \in 1..Len(sent) :
        /\ updates[n].attached /\ updates[n].contentTask = "done"
        /\ updates[n].id = "m1" /\ Len(OrEmpty(updates[n].read)) = 3
        /\ sent[i].call = n
        /\ sent[i].method = "notifications/resources/content_updated"
        /\ sent[i].content = [t |-> "object", v |-> Message("m1", "first")]

C11_RegistryKeepsLastRegistered ==
    /\ [](\A k \in Kinds :
            /\ Cardinality({key \in DOMAIN requestHandlers : key[1] = k}) <= 1
            /\ Lookup(requestHandlers, k) = hostRegistered.after[k])
    /\ [][\A key \in DOMAIN requestHandlers :
            key \in DOMAIN requestHandlers']_vars
\* a call-tool request was delegated to H1, and the host has since
\* registered H2 for the kind: the registry holds H2 alone
C11_Witness ==
    /\ req.kind = CallTool /\ req.lookups = <<"H1">>
    /\ Lookup(requestHandlers, CallTool) = "H2"
    /\ Cardinality(DOMAIN requestHandlers) = 1

\* C12: a list-resources response is the resources getResources returned
\* to the request (none when it returned undefined) followed by the
\* resources of the fallback handler, a list-resource-templates response is
\* the configured template followed by the fallback's templates, and with
\* no fallback in the registry the response is the local part alone.
C12_ListsAreLocalThenFallback ==
    (ByFacade /\ Done /\ req.kind \in {ListResources, ListResourceTemplates}) =>
        LET local == IF req.kind = ListResources
                     THEN OrEmpty(SeenResources)
                     ELSE <<resourceTemplate>>
        IN  /\ req.kind = ListResources => Len(req.resources) = 1
            /\ req.kind = ListResourceTemplates => req.resources = <<>>
            /\ Len(req.lookups) = 1
            /\ req.calls = IF req.lookups[1] = NoHandler THEN <<>> ELSE req.lookups
            /\ req.response = Response(FieldOf(req.kind), local \o FallbackItems)
            /\ req.lookups[1] = NoHandler =>
                 req.response = Response(FieldOf(req.kind), local)
\* list-resources answered with three local resources and then the two of H2
C12_Witness ==
    /\ ByFacade /\ Done /\ req.kind = ListResources
    /\ Len(SeenResources.list) = 3
    /\ req.calls = <<"H2">>
    /\ Len(req.response.items) = 5

\* C13: a call-tool request whose name is a discovered protocol and whose
\* arguments lack a string uri or a string message fails with the schema's
\* validation error; writeMessage is not called, and the registry is
\* neither looked up nor is any handler of it called.
C13_InvalidArgumentsFailValidation ==
    (ByFacade /\ req.kind = CallTool /\ NameDiscovered /\ ~ValidArguments) =>
        /\ req.status = "failed"
        /\ req.error = ZodError
        /\ req.response = NoResponse
        /\ req.writes = <<>> /\ req.summaries = <<>>
        /\ req.lookups = <<>> /\ req.calls = <<>>
\* the name is discovered, the message is missing, and a call-tool
\* fallback is in the registry
C13_Witness ==
    /\ ByFacade /\ req.kind = CallTool /\ NameDiscovered
    /\ req.params.arguments.message = JsUndefined
    /\ req.atStart \in HostHandlers
    /\ req.error = ZodError

\* C14: when getResources, readMessages or writeMessage fails during a
\* facade request, the request fails with that accessor's error and no
\* response: the accessor that failed was called once and not again, and
\* neither what the handler had built nor what a fallback had returned is
\* given as the answer.
C14_AccessorFailureFailsRequest ==
    req.rejected # <<>> =>
        /\ ByFacade
        /\ Len(req.rejected) = 1
        /\ req.status = "failed"
        /\ req.error = AccessorError(req.rejected[1])
        /\ req.response = NoResponse
        /\ req.stack = <<>>
        /\ req.rejected[1] = "awaitResources" => req.resources = <<>>
        /\ req.rejected[1] = "awaitRead" => req.messages = <<>>
        /\ req.rejected[1] = "awaitWrite" =>
             Len(req.writes) = 1 /\ req.summaries = <<>>
        /\ (req.kind \in {CallTool, ReadResource, ListResources}) =>
             req.lookups = <<>> /\ req.calls = <<>>
\* list-tools had the tools of H1 in hand when getResources failed
C14_Witness ==
    /\ req.kind = ListTools /\ req.calls = <<"H1">>
    /\ req.rejected = <<"awaitResources">>
    /\ req.status = "failed"

\* the lengths n of p for which url is chat+<p>:///<rest> with p of n
\* characters, none of them a colon
ClaimedSplits(url) ==
    { n \in 1..Len(url) :
        /\ HasPrefixAt(url, ChatPlus, 1)
        /\ Len(ChatPlus) + n <= Len(url)
        /\ \A i \in 1..n : url[Len(ChatPlus) + i] # ":"
        /\ HasPrefixAt(url, TripleSlash, Len(ChatPlus) + n + 1) }
Parsed == pure.fn = "parseChatProtocolUrl" /\ pure.done

\* C15: parseChatProtocolUrl returns protocol = "chat+" + p and
\* pathname = rest for every string chat+<p>:///<rest> with p non-empty and
\* free of ':', and null for every other string.
C15_ParsesEveryChatUrl ==
    Parsed =>
        IF ClaimedSplits(pure.arg) = {}
        THEN pure.result = NoMatch
        ELSE \A n \in ClaimedSplits(pure.arg) :
               pure.result =
                 [matched |-> TRUE,
                  protocol |-> SubSeq(pure.arg, 1, Len(ChatPlus) + n),
                  pathname |-> SubSeq(pure.arg,
                                      Len(ChatPlus) + n + Len(TripleSlash) + 1,
                                      Len(pure.arg))]
\* what does hold of the parser: the same with pathname the rest up to its
\* first line terminator
C15_PathnameIsFirstLineOfRest ==
    Parsed =>
        IF ClaimedSplits(pure.arg) = {}
        THEN pure.result = NoMatch
        ELSE \A n \in ClaimedSplits(pure.arg) :
               LET from == Len(ChatPlus) + n + Len(TripleSlash) + 1
                   ends == { i \in from..Len(pure.arg) :
                               pure.arg[i] \in LineTerminators }
                   to == IF ends = {} THEN Len(pure.arg)
                         ELSE (CHOOSE i \in ends : \A j \in ends : i <= j) - 1
               IN  pure.result =
                     [matched |-> TRUE,
                      protocol |-> SubSeq(pure.arg, 1, Len(ChatPlus) + n),
                      pathname |-> SubSeq(pure.arg, from, to)]

Discovered == pure.fn = "getProtocols" /\ pure.done
ProtocolsOf(found) == { found.protocols[i] : i \in 1..Len(found.protocols) }

\* C16: discovery over a resource list whose URIs are all well-formed
\* succeeds and returns each distinct protocol of the list exactly once;
\* an empty or undefined list yields no protocols; discovery over the same
\* list again yields the same result, and over a permutation of the list
\* the same set of protocols.
C16_DiscoveryIsASetOfProtocols ==
    (Discovered /\ Malformed(pure.arg) = {}) =>
        /\ pure.result.ok /\ pure.again.ok
        /\ ProtocolsOf(pure.result) = ProtocolSet(pure.arg)
        /\ Len(pure.result.protocols) = Cardinality(ProtocolSet(pure.arg))
        /\ OrEmpty(pure.arg) = <<>> => pure.result.protocols = <<>>
        /\ pure.other = pure.arg => pure.again = pure.result
        /\ ProtocolsOf(pure.again) = ProtocolsOf(pure.result)
        /\ Len(pure.again.protocols) = Len(pure.result.protocols)
\* three resources of two protocols, and a permutation of them whose
\* protocols come out in the other order
C16_Witness ==
    /\ Discovered
    /\ pure.arg = Defined(<<Resource(UriA1), Resource(UriB1), Resource(UriA2)>>)
    /\ pure.result.protocols = <<ProtoA, ProtoB>>
    /\ pure.again.protocols = <<ProtoB, ProtoA>>

\* C17: after any attach and registration operations, attaching the bus to
\* the same server again included, the facade is not in the registry as
\* its own fallback, and a facade request calls the fallback of its kind
\* at most once and neither recurses without end nor overflows the stack.
C17_FacadeIsNeverItsOwnFallback ==
    /\ \A k \in Kinds : Lookup(requestHandlers, k) # Facade
    /\ ByFacade =>
         /\ Len(req.calls) <= 1
         /\ req.status # "unbounded"
         /\ req.error # RangeError

\* C18 as stated: a facade request that looks up the registry does so once
\* and finds the handler that was registered for its kind when the request
\* began.
C18_UsesHandlerFromRequestStart ==
    (ByFacade /\ req.lookups # <<>>) =>
        /\ Len(req.lookups) = 1
        /\ req.lookups[1] = req.atStart
\* C18, amended: a facade request looks up the registry at most once, in
\* one step with no registration inside it, and calls the handler it found;
\* list-tools and list-resource-templates look up when the request begins,
\* so they use the handler registered then; call-tool, read-resource and
\* list-resources look up after getResources or readMessages has returned,
\* so they use the handler registered for the kind at that moment, the
\* replacement included if the host registered one during the suspension.
C18_UsesHandlerFromLookupTime ==
    /\ [](ByFacade =>
            /\ Len(req.lookups) <= 1
            /\ (req.kind \in {ListTools, ListResourceTemplates}) =>
                 req.lookups = <<req.atStart>>
            /\ req.calls = SelectSeq(req.lookups, LAMBDA h : h # NoHandler))
    /\ [][(req'.lookups # req.lookups /\ req'.lookups # <<>>) =>
            /\ regs' = regs /\ requestHandlers' = requestHandlers
            /\ Last(req'.lookups) = Lookup(requestHandlers, req'.kind)
            /\ (req'.kind \in {CallTool, ReadResource, ListResources}) =>
                 /\ req.status = "running"
                 /\ Len(req'.resources) + Len(req'.messages) =
                      Len(req.resources) + Len(req.messages) + 1]_vars
\* H1 was registered for call-tool when the request began, the host
\* registered H2 while getResources was awaited, and H2 answered
C18_Witness ==
    /\ ByFacade /\ Done /\ req.kind = CallTool
    /\ req.atStart = "H1"
    /\ req.lookups = <<"H2">> /\ req.calls = <<"H2">>
    /\ req.response = HostResult("H2", CallTool)

ListChangedSent ==
    SelectSeq(sent, LAMBDA n : n.method = "notifications/resources/list_changed")

\* C19: a call of updateResourceList hands the server one
\* resource-list-changed notification when the bus is attached and the
\* server's transport has started, and nothing otherwise; in no case does
\* the call throw.
C19_ListChangedOnlyWhenStarted ==
    /\ [](raised = <<>>)
    /\ [][listUpdates' # listUpdates =>
            /\ listUpdates' = listUpdates + 1
            /\ sent' = IF server # "null" /\ transportStarted
                       THEN Append(sent, ResourceListChanged(listUpdates'))
                       ELSE sent]_vars
    /\ [][ListChangedSent' # ListChangedSent =>
            /\ listUpdates' = listUpdates + 1
            /\ server # "null" /\ transportStarted]_vars
\* two calls: the first, before the bus was attached or the transport
\* started, sent nothing; the second sent the notification
C19_Witness ==
    /\ listUpdates = 2
    /\ server # "null" /\ transportStarted
    /\ ListChangedSent = <<ResourceListChanged(2)>>

=============================================================================
